---- MODULE Spec2Model ----
(***************************************************************************)
(* WOKCommands: the orchestrator (guild-settings cache, persistence        *)
(* strategy selection, guarded repository accessors) and the document      *)
(* store cooldown repository (MongoCooldownRepository).                    *)
(*                                                                         *)
(* Scheduling is that of one JavaScript event loop: the code between two   *)
(* awaits runs atomically, and each await of a repository call is a        *)
(* suspension point at which any other task may run.  A repository call    *)
(* is therefore three steps: the call is issued, the store processes it,   *)
(* the awaiting task resumes with the reply.                               *)
(***************************************************************************)
EXTENDS Integers, Sequences, FiniteSets, TLC

VARIABLES
    options,                  \* the Options object given to the constructor
    setUpPc,                  \* where setUp() stands
    setUpError,               \* the error setUp() rejected with, or None
    findAllReply,             \* <<what the store answered to the warm's findAll()>>, or <<>>
    _isDbConnected,           \* private fields of WOKCommands
    _getDbConnectionStatus,
    _guildSettingsRepository,
    _cooldownRepository,
    _commandHandler,
    _slashCommand,
    _messageHandler,
    _featureHandler,
    _guildSettings,           \* the cache: guildId -> aggregate (heap index), 0 = no entry
    heap,                     \* the GuildSettingsAggregate objects allocated so far
    gsCollection,             \* the stored guild settings: guildId -> prefix or None
    readyState,               \* the mongoose connection's readyState
    generic,                  \* what the caller-supplied probes currently answer
    tasks,                    \* the asynchronous API calls in flight
    calls,                    \* number of API calls made so far
    last,                     \* the API call or accessor use that completed last
    findOneCalls,             \* history: findOne calls issued, per guild
    findAllCalls,             \* history: findAll calls issued
    settled,                  \* history: guilds for which a getOrCreate miss has completed
    lastSet,                  \* history: prefix of the last completed setPrefix, per guild
    _defaultPrefix,           \* private _defaultPrefix: the process-wide default prefix
    cooldowns,                \* the cooldown collection: a set of documents, _id unique
    cdLast,                   \* the MongoCooldownRepository call that completed last
    cdOps                     \* number of MongoCooldownRepository calls made so far

orchVars == <<options, setUpPc, setUpError, findAllReply, _isDbConnected,
              _getDbConnectionStatus, _guildSettingsRepository, _cooldownRepository,
              _commandHandler, _slashCommand, _messageHandler, _featureHandler,
              _guildSettings, heap, gsCollection, readyState, generic, tasks, calls,
              last, findOneCalls, findAllCalls, settled, lastSet, _defaultPrefix>>

cdVars == <<cooldowns, cdLast, cdOps>>

vars == <<orchVars, cdVars>>

(***************************************************************************)
(* Bounds and input sets                                                   *)
(***************************************************************************)
MaxCalls == 2                     \* API calls made on one instance
MaxOps == 3                       \* calls made on one MongoCooldownRepository

None == "none"                    \* undefined / null
Guilds == {"g1", "g2"}
Prefixes == {"?"}                 \* prefixes given to setPrefix
Tasks == {1, 2}                   \* API calls that can be in flight at once
ReadyStates == {0, 1, 2, 3, 99}   \* mongoose readyState values, 99 = any other
GenericStatuses == {"CONNECTED", "DISCONNECTED"}

\* values given to setDefaultPrefix; the field starts as '!'
DefaultPrefixes == {"!", "#"}

\* new GuildSettingsAggregate({ guildId }): the default aggregate
NewGuildSettingsAggregate(guildId) == [guildId |-> guildId, prefix |-> "!"]

(***************************************************************************)
(* Probes and guarded accessors                                            *)
(***************************************************************************)
\* the members of the DbConnectionStatus enumeration
DbConnectionStatus == {"DISCONNECTED", "CONNECTED", "CONNECTING", "DISCONNECTING",
                       "UNKNOWN", "NO_DATABASE"}

\* enumFromName(name, DbConnectionStatus): the member of that name, if there is one
enumFromName(name) == IF name \in DbConnectionStatus THEN name ELSE None

\* mutant: the built-in probe also counts a connecting driver as connected
ProbeIsConnectedLoose(fn, rs) ==
    CASE fn = "MONGOOSE" -> rs \in {1, 2}
      [] fn = "GENERIC"  -> generic.isDbConnected
      [] OTHER           -> FALSE

\* this._isDbConnected(), for the probe stored in the field
ProbeIsConnected(fn, rs) ==
    CASE fn = "MONGOOSE" -> rs = 1
      [] fn = "GENERIC"  -> generic.isDbConnected
      [] OTHER           -> FALSE

\* the readyState table of the built-in _getDbConnectionStatus
MongooseStatus(rs) ==
    enumFromName(CASE rs = 0 -> "DISCONNECTED"
                   [] rs = 1 -> "CONNECTED"
                   [] rs = 2 -> "CONNECTING"
                   [] rs = 3 -> "DISCONNECTING"
                   [] OTHER  -> "UNKNOWN")

ProbeStatus(fn, rs) ==
    CASE fn = "MONGOOSE" -> MongooseStatus(rs)
      [] fn = "GENERIC"  -> generic.status
      [] OTHER           -> "UNKNOWN"

\* isDBConnected(), with the probe field fn and the connection in readyState rs
isDBConnectedWith(fn, rs) == fn # None /\ ProbeIsConnected(fn, rs)

isDBConnected == isDBConnectedWith(_isDbConnected, readyState)

dbConnectionStatusWith(fn, rs) == IF fn = None THEN "UNKNOWN" ELSE ProbeStatus(fn, rs)

dbConnectionStatus == dbConnectionStatusWith(_getDbConnectionStatus, readyState)

\* mutant: the accessor without its isDBConnected() check
AccessorUnguarded(connected, repo, what) == IF repo = None THEN what ELSE repo

\* mutant: the accessor looks at the repository field before the connection
AccessorRepositoryFirst(connected, repo, what) ==
    IF repo = None THEN what
    ELSE IF ~connected THEN "DB not connected!"
    ELSE repo

\* a guarded accessor: the repository, or the error it throws
Accessor(connected, repo, what) ==
    IF ~connected THEN "DB not connected!"
    ELSE IF repo = None THEN what
    ELSE repo

guildSettingsRepository ==
    Accessor(isDBConnected, _guildSettingsRepository, "_guildSettingsRepository not defined!")

cooldownRepository ==
    Accessor(isDBConnected, _cooldownRepository, "_cooldownRepository not defined!")

AccessorErrors == {"DB not connected!", "_guildSettingsRepository not defined!",
                   "_cooldownRepository not defined!"}

(***************************************************************************)
(* MongoCooldownRepository                                                 *)
(***************************************************************************)
CommandIds == {"a", "a-1"}
GuildIds == {"1", "2"}
UserIds == {None, "", "2"}
CooldownTypes == {"global", "per-user", "channel"}    \* "channel" is not a CooldownType
Seconds == {1, 2}

CooldownEntities ==
    [commandId : CommandIds, guildId : GuildIds, userId : UserIds, type : CooldownTypes,
     secondsRemaining : Seconds]

\* what delete() is called with: a WhereOneInput, or an object with further fields
WhereOneInputs ==
    [commandId : CommandIds, guildId : GuildIds, userId : UserIds, type : {None, "channel"},
     secondsRemaining : {None}]

UnrecognizedType == "WOK Commands > unrecognized Cooldown type"
DuplicateKey == "E11000 duplicate key error"

\* `${x}` in a template literal
Str(x) == IF x = None THEN "undefined" ELSE x

\* mutant: the userId is appended whether or not it is given
getIdFromWhereOneInputAlways(input) ==
    Str(input.commandId) \o "-" \o Str(input.guildId) \o "-" \o Str(input.userId)

getIdFromWhereOneInput(input) ==
    LET userIdSuffix == IF input.userId \notin {None, ""} THEN "-" \o Str(input.userId)
                        ELSE ""
    IN  Str(input.commandId) \o "-" \o Str(input.guildId) \o userIdSuffix

\* mutant: the per-user identity leaves the userId out
getIdFromEntityNoUser(cooldown) ==
    IF cooldown.type \in {"global", "per-user"}
    THEN Str(cooldown.commandId) \o "-" \o Str(cooldown.guildId)
    ELSE UnrecognizedType

\* mutant: any other scope is treated as global instead of being refused
getIdFromEntityLenient(cooldown) ==
    IF cooldown.type = "per-user"
    THEN Str(cooldown.commandId) \o "-" \o Str(cooldown.guildId) \o "-" \o Str(cooldown.userId)
    ELSE Str(cooldown.commandId) \o "-" \o Str(cooldown.guildId)

getIdFromEntity(cooldown) ==
    IF cooldown.type = "global"
    THEN Str(cooldown.commandId) \o "-" \o Str(cooldown.guildId)
    ELSE IF cooldown.type = "per-user"
    THEN Str(cooldown.commandId) \o "-" \o Str(cooldown.guildId) \o "-" \o Str(cooldown.userId)
    ELSE UnrecognizedType

\* cooldownSchema.findOneAndUpdate(filter, update, { upsert: true }): the matching
\* document is updated; with none matching, update is inserted, which the unique
\* _id index refuses when another document holds that _id
Matches(d, filter) == \A k \in DOMAIN filter : d[k] = filter[k]

\* mutant: an upsert that matches nothing replaces the document holding the _id
findOneAndUpdateOverwrite(docs, filter, update) ==
    LET match == { d \in docs : Matches(d, filter) \/ d._id = filter._id }
    IN  [docs |-> (docs \ match) \cup {update}, error |-> None]

findOneAndUpdate(docs, filter, update) ==
    LET match == { d \in docs : Matches(d, filter) }
    IN  IF match # {}
        THEN [docs |-> (docs \ match) \cup {update}, error |-> None]
        ELSE IF \E d \in docs : d._id = filter._id
        THEN [docs |-> docs, error |-> DuplicateKey]
        ELSE [docs |-> docs \cup {update}, error |-> None]

\* cooldownSchema.deleteOne(filter)
deleteOne(docs, filter) == { d \in docs : ~Matches(d, filter) }

\* cdLast: the call, what it derived and how it ended; io: storage calls it issued;
\* again: it repeats the save before it; before: documents stored when it was made
NoOp == [op |-> None,
         input |-> [commandId |-> None, guildId |-> None, userId |-> None, type |-> None,
                    secondsRemaining |-> None],
         _id |-> None, outcome |-> None, io |-> 0, again |-> FALSE, before |-> 0]

\* mutant: save() filters its upsert by _id alone
SaveFilterById(cooldown) ==
    /\ cdOps < MaxOps
    /\ cdOps' = cdOps + 1
    /\ LET _id == getIdFromEntity(cooldown)
           again == cdLast.op = "save" /\ cdLast.input = cooldown
       IN  IF _id = UnrecognizedType
           THEN /\ cdLast' = [op |-> "save", input |-> cooldown, _id |-> None,
                              outcome |-> UnrecognizedType, io |-> 0, again |-> again,
                              before |-> Cardinality(cooldowns)]
                /\ UNCHANGED cooldowns
           ELSE LET r == findOneAndUpdate(cooldowns,
                             [_id |-> _id],
                             [_id |-> _id, name |-> cooldown.commandId, type |-> cooldown.type,
                              cooldown |-> cooldown.secondsRemaining])
                IN  /\ cooldowns' = r.docs
                    /\ cdLast' = [op |-> "save", input |-> cooldown, _id |-> _id,
                                  outcome |-> IF r.error # None THEN r.error ELSE "returned",
                                  io |-> 1, again |-> again,
                                  before |-> Cardinality(cooldowns)]
    /\ UNCHANGED orchVars

\* save(cooldown)
Save(cooldown) ==
    /\ cdOps < MaxOps
    /\ cdOps' = cdOps + 1
    /\ LET _id == getIdFromEntity(cooldown)
           again == cdLast.op = "save" /\ cdLast.input = cooldown
       IN  IF _id = UnrecognizedType
           THEN /\ cdLast' = [op |-> "save", input |-> cooldown, _id |-> None,
                              outcome |-> UnrecognizedType, io |-> 0, again |-> again,
                              before |-> Cardinality(cooldowns)]
                /\ UNCHANGED cooldowns
           ELSE LET r == findOneAndUpdate(cooldowns,
                             [_id |-> _id, name |-> cooldown.commandId, type |-> cooldown.type],
                             [_id |-> _id, name |-> cooldown.commandId, type |-> cooldown.type,
                              cooldown |-> cooldown.secondsRemaining])
                IN  /\ cooldowns' = r.docs
                    /\ cdLast' = [op |-> "save", input |-> cooldown, _id |-> _id,
                                  outcome |-> IF r.error # None THEN r.error ELSE "returned",
                                  io |-> 1, again |-> again,
                                  before |-> Cardinality(cooldowns)]
    /\ UNCHANGED orchVars

\* delete(input)
Delete(input) ==
    /\ cdOps < MaxOps
    /\ cdOps' = cdOps + 1
    /\ LET _id == getIdFromWhereOneInput(input)
       IN  /\ cooldowns' = deleteOne(cooldowns, [_id |-> _id, name |-> input.commandId])
           /\ cdLast' = [op |-> "delete", input |-> input, _id |-> _id,
                         outcome |-> "returned", io |-> 1, again |-> FALSE,
                         before |-> Cardinality(cooldowns)]
    /\ UNCHANGED orchVars

NotImplemented == "Method not implemented."

\* mutant: findOne looks the document up and resolves with it, or with nothing
FindOneLookup(input) ==
    /\ cdOps < MaxOps
    /\ cdOps' = cdOps + 1
    /\ LET _id == getIdFromWhereOneInput(input)
           found == { d \in cooldowns : Matches(d, [_id |-> _id, name |-> input.commandId]) }
       IN  cdLast' = [op |-> "findOne", input |-> input, _id |-> _id,
                      outcome |-> IF found = {} THEN None ELSE "returned",
                      io |-> 1, again |-> FALSE, before |-> Cardinality(cooldowns)]
    /\ UNCHANGED cooldowns
    /\ UNCHANGED orchVars

\* findOne(input): throws before it reads its argument
FindOne(input) ==
    /\ cdOps < MaxOps
    /\ cdOps' = cdOps + 1
    /\ cdLast' = [op |-> "findOne", input |-> input, _id |-> None,
                  outcome |-> NotImplemented, io |-> 0, again |-> FALSE,
                  before |-> Cardinality(cooldowns)]
    /\ UNCHANGED cooldowns
    /\ UNCHANGED orchVars

(***************************************************************************)
(* Initial state: the constructor has stored the client and is about to    *)
(* call setUp(client, options).                                            *)
(***************************************************************************)
OptionsSet ==
    [dbConnectionStrategy : {None, "MONGOOSE", "GENERIC"}, mongoUri : BOOLEAN,
     guildSettingsRepository : {None, "GENERIC"}, cooldownRepository : {None, "GENERIC"}]

\* a guild the store holds no record of when the process starts
NewGuild == "g2"

\* what the store holds when the process starts
InitialStores == { s \in [Guilds -> {None, "$"}] : s[NewGuild] = None }

\* saves, saved, returned: the save() calls the task has made, the prefix the
\* aggregate carried when save() was called, the aggregate save() resolved with
NoTask == [pc |-> "idle", op |-> None, guildId |-> None, prefix |-> None, obj |-> 0,
           reply |-> None, saves |-> 0, saved |-> None, returned |-> 0]

NoCall == [op |-> None, guildId |-> None, outcome |-> None, obj |-> 0]

Init ==
    /\ options \in OptionsSet
    /\ options.dbConnectionStrategy # "MONGOOSE" => options.mongoUri
    /\ options.dbConnectionStrategy # "GENERIC" =>
           options.guildSettingsRepository = None /\ options.cooldownRepository = None
    /\ options.guildSettingsRepository = None <=> options.cooldownRepository = None
    /\ setUpPc = "start"
    /\ setUpError = None
    /\ findAllReply = <<>>
    /\ _isDbConnected = None
    /\ _getDbConnectionStatus = None
    /\ _guildSettingsRepository = None
    /\ _cooldownRepository = None
    /\ _commandHandler = FALSE
    /\ _slashCommand = FALSE
    /\ _messageHandler = FALSE
    /\ _featureHandler = FALSE
    /\ _guildSettings = [g \in Guilds |-> 0]
    /\ heap = <<>>
    /\ gsCollection \in InitialStores
    /\ readyState = 0
    /\ generic \in [isDbConnected : BOOLEAN, status : GenericStatuses]
    /\ options.dbConnectionStrategy # "GENERIC" =>
           generic = [isDbConnected |-> FALSE, status |-> "DISCONNECTED"]
    /\ tasks = [t \in Tasks |-> NoTask]
    /\ calls = 0
    /\ last = NoCall
    /\ findOneCalls = [g \in Guilds |-> 0]
    /\ findAllCalls = 0
    /\ settled = {}
    /\ lastSet = [g \in Guilds |-> None]
    /\ _defaultPrefix = "!"
    /\ cooldowns = {}
    /\ cdLast = NoOp
    /\ cdOps = 0

(***************************************************************************)
(* setUp                                                                   *)
(***************************************************************************)
strategyVars == <<_isDbConnected, _getDbConnectionStatus, _guildSettingsRepository,
                  _cooldownRepository>>
handlerVars == <<_commandHandler, _slashCommand, _messageHandler, _featureHandler>>
apiVars == <<tasks, calls, last, findOneCalls, settled, lastSet>>
envVars == <<readyState, generic>>

\* setUp rejects: nothing after the throw runs
SetUpThrow(error) ==
    /\ setUpPc' = "failed"
    /\ setUpError' = error
    /\ UNCHANGED handlerVars

\* lines 135-209: the directory checks, then the handlers are constructed.
\* dirsOk: options' commandsDir and featuresDir, read only here, pass the checks
SetUpFinish(dirsOk) ==
    IF ~dirsOk
    THEN SetUpThrow("directory must be an absolute path")
    ELSE /\ _commandHandler' = TRUE
         /\ _slashCommand' = TRUE
         /\ _messageHandler' = TRUE
         /\ _featureHandler' = TRUE
         /\ setUpPc' = "running"
         /\ setUpError' = None

\* mutant: setUp goes to findAll() without checking the connection status
SetUpWarmNoStatusCheck(rs, fnConnected, fnStatus, repo) ==
    LET r == Accessor(isDBConnectedWith(fnConnected, rs), repo,
                      "_guildSettingsRepository not defined!")
    IN  IF r \in AccessorErrors
        THEN /\ SetUpThrow(r)
             /\ UNCHANGED findAllCalls
        ELSE /\ setUpPc' = "findAll"
             /\ findAllCalls' = findAllCalls + 1
             /\ UNCHANGED <<setUpError, handlerVars>>

\* lines 120-128: the status check, then findAll() through the guarded accessor
SetUpWarm(rs, fnConnected, fnStatus, repo) ==
    IF dbConnectionStatusWith(fnStatus, rs) # "CONNECTED"
    THEN /\ SetUpThrow("WOKCommands > Database not connected!")
         /\ UNCHANGED findAllCalls
    ELSE LET r == Accessor(isDBConnectedWith(fnConnected, rs), repo,
                           "_guildSettingsRepository not defined!")
         IN  IF r \in AccessorErrors
             THEN /\ SetUpThrow(r)
                  /\ UNCHANGED findAllCalls
             ELSE /\ setUpPc' = "findAll"
                  /\ findAllCalls' = findAllCalls + 1
                  /\ UNCHANGED <<setUpError, handlerVars>>

\* mutant: the caller-supplied branch keeps the built-in cooldown repository
SetUpBeginMixed ==
    /\ setUpPc = "start"
    /\ IF options.dbConnectionStrategy = "MONGOOSE" /\ options.mongoUri
       THEN /\ setUpPc' = "mongo"
            /\ UNCHANGED <<setUpError, strategyVars, handlerVars, findAllCalls>>
       ELSE IF options.dbConnectionStrategy = "GENERIC"
       THEN /\ _isDbConnected' = "GENERIC"
            /\ _getDbConnectionStatus' = "GENERIC"
            /\ _guildSettingsRepository' = options.guildSettingsRepository
            /\ _cooldownRepository' = "MONGOOSE"
            /\ SetUpWarm(readyState, "GENERIC", "GENERIC", options.guildSettingsRepository)
       ELSE /\ \E dirsOk \in BOOLEAN : SetUpFinish(dirsOk)
            /\ UNCHANGED <<strategyVars, findAllCalls>>
    /\ UNCHANGED <<options, findAllReply, _guildSettings, heap, gsCollection, envVars,
                   apiVars>>
    /\ UNCHANGED _defaultPrefix
    /\ UNCHANGED cdVars

\* the constructor calls setUp, which runs to its first await (or to its end)
SetUpBegin ==
    /\ setUpPc = "start"
    /\ IF options.dbConnectionStrategy = "MONGOOSE" /\ options.mongoUri
       THEN /\ setUpPc' = "mongo"
            /\ UNCHANGED <<setUpError, strategyVars, handlerVars, findAllCalls>>
       ELSE IF options.dbConnectionStrategy = "GENERIC"
       THEN /\ _isDbConnected' = "GENERIC"
            /\ _getDbConnectionStatus' = "GENERIC"
            /\ _guildSettingsRepository' = options.guildSettingsRepository
            /\ _cooldownRepository' = options.cooldownRepository
            /\ SetUpWarm(readyState, "GENERIC", "GENERIC", options.guildSettingsRepository)
       ELSE /\ \E dirsOk \in BOOLEAN : SetUpFinish(dirsOk)
            /\ UNCHANGED <<strategyVars, findAllCalls>>
    /\ UNCHANGED <<options, findAllReply, _guildSettings, heap, gsCollection, envVars,
                   apiVars>>
    /\ UNCHANGED _defaultPrefix
    /\ UNCHANGED cdVars

\* await mongo(mongoUri, this, dbOptions) resolves with the connection, which is
\* in some readyState
SetUpMongoConnected ==
    /\ setUpPc = "mongo"
    /\ \E rs \in ReadyStates :
          /\ readyState' = rs
          /\ _isDbConnected' = "MONGOOSE"
          /\ _getDbConnectionStatus' = "MONGOOSE"
          /\ _guildSettingsRepository' = "MONGOOSE"
          /\ _cooldownRepository' = "MONGOOSE"
          /\ SetUpWarm(rs, "MONGOOSE", "MONGOOSE", "MONGOOSE")
    /\ UNCHANGED <<options, findAllReply, _guildSettings, heap, gsCollection, generic,
                   apiVars>>
    /\ UNCHANGED _defaultPrefix
    /\ UNCHANGED cdVars

\* the store answers the warm's findAll() with the records it holds now
DbFindAll ==
    /\ setUpPc = "findAll"
    /\ findAllReply' = <<gsCollection>>
    /\ setUpPc' = "findAllReplied"
    /\ UNCHANGED <<options, setUpError, strategyVars, handlerVars, _guildSettings, heap,
                   gsCollection, envVars, apiVars, findAllCalls>>
    /\ UNCHANGED _defaultPrefix
    /\ UNCHANGED cdVars

GuildSeq == <<"g1", "g2">>

\* the aggregates findAll() returned, in the order of the reply
Returned(reply) == SelectSeq(GuildSeq, LAMBDA g : reply[g] # None)

IndexOf(seq, x) == CHOOSE i \in 1..Len(seq) : seq[i] = x

\* lines 129-132: the reduce builds a new Collection, which replaces the cache
WarmedCache(reply, base) ==
    [g \in Guilds |->
        IF reply[g] # None THEN base + IndexOf(Returned(reply), g) ELSE 0]

WarmedHeap(reply) ==
    [i \in 1..Len(Returned(reply)) |->
        [guildId |-> Returned(reply)[i], prefix |-> reply[Returned(reply)[i]]]]

\* await findAll() resumes: the cache is assigned, setUp runs to its end
SetUpWarmResume ==
    /\ setUpPc = "findAllReplied"
    /\ heap' = heap \o WarmedHeap(findAllReply[1])
    /\ _guildSettings' = WarmedCache(findAllReply[1], Len(heap))
    /\ \E dirsOk \in BOOLEAN : SetUpFinish(dirsOk)
    /\ UNCHANGED <<options, findAllReply, strategyVars, gsCollection, envVars, apiVars,
                   findAllCalls>>
    /\ UNCHANGED _defaultPrefix
    /\ UNCHANGED cdVars

(***************************************************************************)
(* The environment: the connection is lost or re-established               *)
(***************************************************************************)
EnvChange ==
    /\ _isDbConnected # None
    /\ \/ /\ _isDbConnected = "MONGOOSE"
          /\ readyState' = IF readyState = 1 THEN 0 ELSE 1
          /\ UNCHANGED generic
       \/ /\ _isDbConnected = "GENERIC"
          /\ generic' = IF generic.isDbConnected
                        THEN [isDbConnected |-> FALSE, status |-> "DISCONNECTED"]
                        ELSE [isDbConnected |-> TRUE, status |-> "CONNECTED"]
          /\ UNCHANGED readyState
    /\ UNCHANGED <<options, setUpPc, setUpError, findAllReply, strategyVars, handlerVars,
                   _guildSettings, heap, gsCollection, apiVars, findAllCalls>>
    /\ UNCHANGED _defaultPrefix
    /\ UNCHANGED cdVars

(***************************************************************************)
(* The public API.  A call may be made as soon as the constructor has      *)
(* returned, which is as soon as setUp() has reached its first await: the  *)
(* constructor does not wait for setUp().                                  *)
(***************************************************************************)
setUpVars == <<options, setUpPc, setUpError, findAllReply, strategyVars, handlerVars,
               findAllCalls>>

\* the lowest free slot
CanCall(t) ==
    /\ setUpPc # "start"
    /\ calls < MaxCalls
    /\ tasks[t].pc = "idle"
    /\ \A u \in Tasks : u < t => tasks[u].pc # "idle"

Completed(op, guildId, outcome, obj) ==
    [op |-> op, guildId |-> guildId, outcome |-> outcome, obj |-> obj]

\* setGuildSettings(guildId, guildSettings)
setGuildSettings(guildId, obj) == [_guildSettings EXCEPT ![guildId] = obj]

\* mutant: the cached prefix is returned as it is, an empty one too
getPrefixNoFallback(guild) ==
    IF guild # None /\ _guildSettings[guild] # 0
    THEN heap[_guildSettings[guild]].prefix
    ELSE _defaultPrefix

\* getPrefix(guild)
getPrefix(guild) ==
    IF guild # None /\ _guildSettings[guild] # 0
                    /\ heap[_guildSettings[guild]].prefix \notin {None, ""}
    THEN heap[_guildSettings[guild]].prefix
    ELSE _defaultPrefix

\* lines 294-296 of getOrCreateGuildSettings(guildId), called for `op`: the cache
\* lookup and, on a miss, findOne() through the guarded accessor.  On a hit the
\* task goes on at `hitPc`.
Lookup(t, op, guildId, prefix, hitPc) ==
    IF _guildSettings[guildId] # 0
    THEN /\ IF hitPc = "idle"
            THEN /\ last' = Completed(op, guildId, "hit", _guildSettings[guildId])
                 /\ UNCHANGED tasks
            ELSE /\ tasks' = [tasks EXCEPT ![t] =
                        [pc |-> hitPc, op |-> op, guildId |-> guildId, prefix |-> prefix,
                         obj |-> _guildSettings[guildId], reply |-> None,
                         saves |-> 0, saved |-> None, returned |-> 0]]
                 /\ UNCHANGED last
         /\ UNCHANGED findOneCalls
    ELSE IF guildSettingsRepository \in AccessorErrors
    THEN /\ last' = Completed(op, guildId, guildSettingsRepository, 0)
         /\ UNCHANGED <<tasks, findOneCalls>>
    ELSE /\ tasks' = [tasks EXCEPT ![t] =
                [pc |-> "findOne", op |-> op, guildId |-> guildId, prefix |-> prefix,
                 obj |-> 0, reply |-> None, saves |-> 0, saved |-> None, returned |-> 0]]
         /\ findOneCalls' = [findOneCalls EXCEPT ![guildId] = @ + 1]
         /\ UNCHANGED last

\* a caller calls getOrCreateGuildSettings(guildId)
GetOrCreateCall(t, guildId) ==
    /\ CanCall(t)
    /\ calls' = calls + 1
    /\ Lookup(t, "getOrCreateGuildSettings", guildId, None, "idle")
    /\ UNCHANGED <<setUpVars, _guildSettings, heap, gsCollection, envVars, settled, lastSet>>
    /\ UNCHANGED _defaultPrefix
    /\ UNCHANGED cdVars

\* mutant: setPrefix reads the guarded accessor before it looks at the guild
SetPrefixCallAccessorFirst(t, guild, prefix) ==
    /\ CanCall(t)
    /\ calls' = calls + 1
    /\ IF guildSettingsRepository \in AccessorErrors
       THEN /\ last' = Completed("setPrefix", guild, guildSettingsRepository, 0)
            /\ UNCHANGED <<tasks, findOneCalls>>
       ELSE IF guild = None
       THEN /\ last' = Completed("setPrefix", None, "noop", 0)
            /\ UNCHANGED <<tasks, findOneCalls>>
       ELSE Lookup(t, "setPrefix", guild, prefix, "gotSettings")
    /\ UNCHANGED <<setUpVars, _guildSettings, heap, gsCollection, envVars, settled, lastSet>>
    /\ UNCHANGED _defaultPrefix
    /\ UNCHANGED cdVars

\* a caller calls setPrefix(guild, prefix); guild may be null
SetPrefixCall(t, guild, prefix) ==
    /\ CanCall(t)
    /\ calls' = calls + 1
    /\ IF guild = None
       THEN /\ last' = Completed("setPrefix", None, "noop", 0)
            /\ UNCHANGED <<tasks, findOneCalls>>
       ELSE Lookup(t, "setPrefix", guild, prefix, "gotSettings")
    /\ UNCHANGED <<setUpVars, _guildSettings, heap, gsCollection, envVars, settled, lastSet>>
    /\ UNCHANGED _defaultPrefix
    /\ UNCHANGED cdVars

\* the store answers findOne({ guildId }) with the record it holds now
DbFindOne(t) ==
    /\ tasks[t].pc = "findOne"
    /\ tasks' = [tasks EXCEPT ![t].pc = "findOneReplied",
                              ![t].reply = gsCollection[tasks[t].guildId]]
    /\ UNCHANGED <<setUpVars, _guildSettings, heap, gsCollection, envVars, calls, last,
                   findOneCalls, settled, lastSet>>
    /\ UNCHANGED _defaultPrefix
    /\ UNCHANGED cdVars

\* the aggregate findOne() resolves with, or the default aggregate
FoundOrNew(guildId, reply) ==
    IF reply # None THEN [guildId |-> guildId, prefix |-> reply]
    ELSE NewGuildSettingsAggregate(guildId)

\* lines 297-300: await findOne() resumes, the result is cached and returned
FindOneResume(t) ==
    /\ tasks[t].pc = "findOneReplied"
    /\ heap' = Append(heap, FoundOrNew(tasks[t].guildId, tasks[t].reply))
    /\ _guildSettings' = setGuildSettings(tasks[t].guildId, Len(heap) + 1)
    /\ settled' = settled \cup {tasks[t].guildId}
    /\ IF tasks[t].op = "getOrCreateGuildSettings"
       THEN /\ tasks' = [tasks EXCEPT ![t] = NoTask]
            /\ last' = Completed(tasks[t].op, tasks[t].guildId, "miss", Len(heap) + 1)
       ELSE /\ tasks' = [tasks EXCEPT ![t].pc = "gotSettings", ![t].obj = Len(heap) + 1]
            /\ UNCHANGED last
    /\ UNCHANGED <<setUpVars, gsCollection, envVars, calls, findOneCalls, lastSet>>
    /\ UNCHANGED _defaultPrefix
    /\ UNCHANGED cdVars

\* mutant: setPrefix calls save() with the aggregate before it sets the new prefix
SetPrefixSaveBeforeMutate(t) ==
    /\ tasks[t].pc = "gotSettings"
    /\ heap' = [heap EXCEPT ![tasks[t].obj].prefix = tasks[t].prefix]
    /\ IF guildSettingsRepository \in AccessorErrors
       THEN /\ tasks' = [tasks EXCEPT ![t] = NoTask]
            /\ last' = Completed("setPrefix", tasks[t].guildId, guildSettingsRepository,
                                 tasks[t].obj)
       ELSE /\ tasks' = [tasks EXCEPT ![t].pc = "save", ![t].saves = @ + 1,
                                      ![t].saved = heap[tasks[t].obj].prefix]
            /\ UNCHANGED last
    /\ UNCHANGED <<setUpVars, _guildSettings, gsCollection, envVars, calls, findOneCalls,
                   settled, lastSet>>
    /\ UNCHANGED _defaultPrefix
    /\ UNCHANGED cdVars

\* lines 311-314 of setPrefix: the aggregate is mutated in place, then save()
\* through the guarded accessor
SetPrefixSave(t) ==
    /\ tasks[t].pc = "gotSettings"
    /\ heap' = [heap EXCEPT ![tasks[t].obj].prefix = tasks[t].prefix]
    /\ IF guildSettingsRepository \in AccessorErrors
       THEN /\ tasks' = [tasks EXCEPT ![t] = NoTask]
            /\ last' = Completed("setPrefix", tasks[t].guildId, guildSettingsRepository,
                                 tasks[t].obj)
       ELSE /\ tasks' = [tasks EXCEPT ![t].pc = "save", ![t].saves = @ + 1,
                                      ![t].saved = heap'[tasks[t].obj].prefix]
            /\ UNCHANGED last
    /\ UNCHANGED <<setUpVars, _guildSettings, gsCollection, envVars, calls, findOneCalls,
                   settled, lastSet>>
    /\ UNCHANGED _defaultPrefix
    /\ UNCHANGED cdVars

\* the store upserts the aggregate save() was given, and save() resolves with it
DbSave(t) ==
    /\ tasks[t].pc = "save"
    /\ gsCollection' = [gsCollection EXCEPT ![tasks[t].guildId] = tasks[t].saved]
    /\ tasks' = [tasks EXCEPT ![t].pc = "saveReplied", ![t].returned = tasks[t].obj]
    /\ UNCHANGED <<setUpVars, _guildSettings, heap, envVars, calls, last, findOneCalls,
                   settled, lastSet>>
    /\ UNCHANGED _defaultPrefix
    /\ UNCHANGED cdVars

\* line 315: await save() resumes, the cache entry is replaced by what it returned
SetPrefixResume(t) ==
    /\ tasks[t].pc = "saveReplied"
    /\ _guildSettings' = [_guildSettings EXCEPT ![tasks[t].guildId] = tasks[t].returned]
    /\ lastSet' = [lastSet EXCEPT ![tasks[t].guildId] = tasks[t].prefix]
    /\ tasks' = [tasks EXCEPT ![t] = NoTask]
    /\ last' = Completed("setPrefix", tasks[t].guildId, "ok", tasks[t].returned)
    /\ UNCHANGED <<setUpVars, heap, gsCollection, envVars, calls, findOneCalls, settled>>
    /\ UNCHANGED _defaultPrefix
    /\ UNCHANGED cdVars

\* a caller calls getPrefix(guild); guild may be null
GetPrefixCall(guild) ==
    /\ setUpPc # "start"
    /\ calls < MaxCalls
    /\ calls' = calls + 1
    /\ last' = Completed("getPrefix", guild, getPrefix(guild), 0)
    /\ UNCHANGED <<setUpVars, _guildSettings, heap, gsCollection, envVars, tasks,
                   findOneCalls, settled, lastSet>>
    /\ UNCHANGED _defaultPrefix
    /\ UNCHANGED cdVars

\* a caller calls setDefaultPrefix(defaultPrefix)
SetDefaultPrefixCall(defaultPrefix) ==
    /\ setUpPc # "start"
    /\ _defaultPrefix' = defaultPrefix
    /\ UNCHANGED <<setUpVars, _guildSettings, heap, gsCollection, envVars, apiVars>>
    /\ UNCHANGED cdVars

\* a caller calls setGuildSettings(guildId, guildSettings) with an aggregate of its
\* own making
SetGuildSettingsCall(guildId) ==
    /\ setUpPc # "start"
    /\ calls < MaxCalls
    /\ calls' = calls + 1
    /\ heap' = Append(heap, NewGuildSettingsAggregate(guildId))
    /\ _guildSettings' = setGuildSettings(guildId, Len(heap) + 1)
    /\ last' = Completed("setGuildSettings", guildId, "ok", Len(heap) + 1)
    /\ UNCHANGED <<setUpVars, gsCollection, envVars, tasks, findOneCalls, settled, lastSet>>
    /\ UNCHANGED _defaultPrefix
    /\ UNCHANGED cdVars

\* a collaborator reads a guarded accessor
UseAccessor(which) ==
    /\ setUpPc # "start"
    /\ calls < MaxCalls
    /\ calls' = calls + 1
    /\ last' = Completed(which, None,
                         IF which = "cooldownRepository" THEN cooldownRepository
                         ELSE guildSettingsRepository, 0)
    /\ UNCHANGED <<setUpVars, _guildSettings, heap, gsCollection, envVars, tasks,
                   findOneCalls, settled, lastSet>>
    /\ UNCHANGED _defaultPrefix
    /\ UNCHANGED cdVars

Next ==
    \/ SetUpBegin
    \/ SetUpMongoConnected
    \/ DbFindAll
    \/ SetUpWarmResume
    \/ EnvChange
    \/ \E t \in Tasks, g \in Guilds : GetOrCreateCall(t, g)
    \/ \E t \in Tasks, g \in Guilds \cup {None}, p \in Prefixes : SetPrefixCall(t, g, p)
    \/ \E t \in Tasks : DbFindOne(t)
    \/ \E t \in Tasks : FindOneResume(t)
    \/ \E t \in Tasks : SetPrefixSave(t)
    \/ \E t \in Tasks : DbSave(t)
    \/ \E t \in Tasks : SetPrefixResume(t)
    \/ \E g \in Guilds \cup {None} : GetPrefixCall(g)
    \/ \E g \in Guilds : SetGuildSettingsCall(g)
    \/ \E w \in {"guildSettingsRepository", "cooldownRepository"} : UseAccessor(w)

Spec == Init /\ [][Next]_vars

(***************************************************************************)
(* The cooldown repository on its own: any sequence of save and delete     *)
(***************************************************************************)
NextCooldown ==
    \/ \E cooldown \in CooldownEntities : Save(cooldown)
    \/ \E input \in WhereOneInputs : Delete(input)
    \/ \E input \in WhereOneInputs : FindOne(input)

InitCooldown ==
    /\ Init
    /\ options.dbConnectionStrategy = None
    /\ gsCollection = [g \in Guilds |-> None]

SpecCooldown == InitCooldown /\ [][NextCooldown]_vars

(***************************************************************************)
(* setPrefix on its own: a caller-supplied strategy whose connection stays  *)
(* up, setUp with its warm, and any interleaving of setPrefix calls with    *)
(* two different prefixes                                                   *)
(***************************************************************************)
TwoPrefixes == {"?", "%"}

InitSetPrefix ==
    /\ Init
    /\ options.dbConnectionStrategy = "GENERIC"
    /\ options.guildSettingsRepository = "GENERIC"
    /\ generic = [isDbConnected |-> TRUE, status |-> "CONNECTED"]

NextSetPrefix ==
    \/ SetUpBegin
    \/ DbFindAll
    \/ SetUpWarmResume
    \/ \E t \in Tasks, g \in Guilds, p \in TwoPrefixes : SetPrefixCall(t, g, p)
    \/ \E t \in Tasks : DbFindOne(t)
    \/ \E t \in Tasks : FindOneResume(t)
    \/ \E t \in Tasks : SetPrefixSave(t)
    \/ \E t \in Tasks : DbSave(t)
    \/ \E t \in Tasks : SetPrefixResume(t)

SpecSetPrefix == InitSetPrefix /\ [][NextSetPrefix]_vars

(***************************************************************************)
(* getPrefix on its own: setUp with its warm, setPrefix calls that may give *)
(* an empty prefix, setDefaultPrefix and getPrefix calls, in any order      *)
(***************************************************************************)
PrefixOrEmpty == {"?", ""}

InitGetPrefix ==
    /\ Init
    /\ options.dbConnectionStrategy = "GENERIC"
    /\ options.guildSettingsRepository = "GENERIC"
    /\ generic = [isDbConnected |-> TRUE, status |-> "CONNECTED"]

NextGetPrefix ==
    \/ SetUpBegin
    \/ DbFindAll
    \/ SetUpWarmResume
    \/ \E t \in Tasks, g \in Guilds, p \in PrefixOrEmpty : SetPrefixCall(t, g, p)
    \/ \E t \in Tasks : DbFindOne(t)
    \/ \E t \in Tasks : FindOneResume(t)
    \/ \E t \in Tasks : SetPrefixSave(t)
    \/ \E t \in Tasks : DbSave(t)
    \/ \E t \in Tasks : SetPrefixResume(t)
    \/ \E defaultPrefix \in DefaultPrefixes : SetDefaultPrefixCall(defaultPrefix)
    \/ \E g \in Guilds \cup {None} : GetPrefixCall(g)

SpecGetPrefix == InitGetPrefix /\ [][NextGetPrefix]_vars

(***************************************************************************)
(* Properties                                                              *)
(***************************************************************************)
NoTasks == \A t \in Tasks : tasks[t].pc = "idle"

EmptyCache == [g \in Guilds |-> 0]

DbNotConnected == {"DB not connected!", "WOKCommands > Database not connected!"}

\* C1: once a getOrCreateGuildSettings call for a guild has completed through a cache
\* miss (findOne, result cached), every later getOrCreateGuildSettings call for that
\* guild is a cache hit: it returns the cached aggregate and issues no findOne,
\* whatever the state of the connection.
C1_LaterCallsHit ==
    [][\A g \in Guilds :
          (g \in settled /\ \E t \in Tasks : GetOrCreateCall(t, g)) =>
              /\ _guildSettings[g] # 0
              /\ last' = Completed("getOrCreateGuildSettings", g, "hit", _guildSettings[g])
              /\ findOneCalls' = findOneCalls
              /\ tasks' = tasks]_vars

\* the reads of a guild's settings: the findOne calls for it, and the warm's findAll
\* when it returned the guild's aggregate
Reads(g) ==
    findOneCalls[g] + (IF findAllReply # <<>> /\ findAllReply[1][g] # None THEN 1 ELSE 0)

\* C2: over any interleaving of the startup warm, getOrCreateGuildSettings and
\* setPrefix, a guild's settings are read from storage at most once.
C2_ReadAtMostOnce == \A g \in Guilds : Reads(g) <= 1

\* C3: for a guild with no stored record and no cache entry getOrCreateGuildSettings
\* returns an aggregate with the default prefix; when a following setPrefix(guild, p)
\* completes the store holds p for the guild; and the next getOrCreateGuildSettings
\* for the guild (no other call in flight) is a hit on an aggregate with prefix p,
\* without a further findOne.
C3_NewGuildScenario ==
    [][LET g == NewGuild IN
          /\ (\E t \in Tasks : FindOneResume(t) /\ tasks[t].guildId = g
                                /\ tasks[t].reply = None
                                /\ tasks[t].op = "getOrCreateGuildSettings")
                => heap'[last'.obj].prefix = _defaultPrefix
          /\ (NoTasks' /\ \E t \in Tasks : SetPrefixResume(t) /\ tasks[t].guildId = g)
                => gsCollection'[g] = lastSet'[g]
          /\ (NoTasks /\ lastSet[g] # None /\ \E t \in Tasks : GetOrCreateCall(t, g))
                => /\ _guildSettings[g] # 0
                   /\ heap[_guildSettings[g]].prefix = lastSet[g]
                   /\ last' = Completed("getOrCreateGuildSettings", g, "hit",
                                        _guildSettings[g])
                   /\ findOneCalls' = findOneCalls
                   /\ tasks' = tasks]_vars

\* a step in which a guarded accessor is read by the API or by a collaborator
AccessorRead ==
    \/ \E w \in {"guildSettingsRepository", "cooldownRepository"} : UseAccessor(w)
    \/ \E t \in Tasks, g \in Guilds :
          _guildSettings[g] = 0 /\ (GetOrCreateCall(t, g)
                                    \/ \E p \in Prefixes : SetPrefixCall(t, g, p))
    \/ \E t \in Tasks : SetPrefixSave(t)

\* a step in which setUp reaches the warm of the cache (lines 120-128)
WarmAttempt == _getDbConnectionStatus = None /\ _getDbConnectionStatus' # None

SavesInFlight == { t \in Tasks : tasks[t].pc = "save" }

\* C4: whenever isDBConnected() is false (the probe answers false, or there is no
\* probe), a read of the guildSettingsRepository or cooldownRepository accessor
\* fails with 'DB not connected!', the startup warm, when setUp reaches it, fails
\* with a database-not-connected error, no findOne, findAll or save is issued, and
\* the cache holds the entries it held.  (isDBConnected() is read in the step's own
\* state: setUp assigns the probes in the step in which it reaches the warm.)
C4_GateWhenDisconnected ==
    [][(~isDBConnected)' =>
          /\ AccessorRead =>
                /\ tasks' \in {tasks} \cup { [tasks EXCEPT ![t] = NoTask] : t \in Tasks }
                /\ last'.outcome = "DB not connected!"
                /\ _guildSettings' = _guildSettings
          /\ WarmAttempt =>
                /\ setUpPc' = "failed"
                /\ setUpError' \in DbNotConnected
                /\ _guildSettings' = _guildSettings
          /\ (AccessorRead \/ WarmAttempt) =>
                /\ findOneCalls' = findOneCalls
                /\ findAllCalls' = findAllCalls
                /\ SavesInFlight' \subseteq SavesInFlight
                /\ gsCollection' = gsCollection]_vars

C4_Witness ==
    /\ ~isDBConnected
    /\ setUpPc = "failed"
    /\ setUpError \in DbNotConnected
    /\ last.op = "cooldownRepository"
    /\ last.outcome = "DB not connected!"

\* a step in which a caller starts command processing on the instance
ProcessingCall ==
    \/ \E t \in Tasks, g \in Guilds : GetOrCreateCall(t, g)
    \/ \E t \in Tasks, g \in Guilds \cup {None}, p \in Prefixes : SetPrefixCall(t, g, p)
    \/ \E g \in Guilds \cup {None} : GetPrefixCall(g)

\* C5: with a strategy configured and reachable findAll() is called exactly once and
\* the aggregates it returns are in the cache before any getOrCreateGuildSettings,
\* setPrefix or getPrefix call is made on the instance: no such call is made while
\* the warm's findAll() is in flight.
C5_WarmBeforeProcessing ==
    [][/\ findAllCalls' <= 1
       /\ ProcessingCall => setUpPc \notin {"findAll", "findAllReplied"}]_vars

\* C6: if a strategy is configured but its connection status is not CONNECTED when
\* setUp checks it, setUp fails: findAll is never called, setUp puts nothing in the
\* cache (it holds an entry only when a call of the API has written one), no handler
\* is ever constructed, and setUp never reaches the running state.
C6_NotConnectedIsFatal ==
    [][/\ (WarmAttempt /\ dbConnectionStatus' # "CONNECTED") =>
             /\ setUpPc' = "failed"
             /\ setUpError' = "WOKCommands > Database not connected!"
             /\ _guildSettings' = _guildSettings
       /\ setUpError' = "WOKCommands > Database not connected!" =>
             /\ setUpPc' = "failed"
             /\ findAllCalls' = 0
             /\ findAllReply' = <<>>
             /\ _guildSettings' # _guildSettings =>
                   \/ \E t \in Tasks : FindOneResume(t) \/ SetPrefixResume(t)
                   \/ \E g \in Guilds : SetGuildSettingsCall(g)
             /\ ~_commandHandler' /\ ~_slashCommand' /\ ~_messageHandler'
             /\ ~_featureHandler']_vars

C6_Witness ==
    /\ setUpPc = "failed"
    /\ setUpError = "WOKCommands > Database not connected!"
    /\ _guildSettingsRepository # None
    /\ dbConnectionStatus # "CONNECTED"
    /\ findAllCalls = 0
    /\ _guildSettings = EmptyCache
    /\ ~_commandHandler

Recognized(type) == type \in {"global", "per-user"}

\* C7: the identity save derives for a global-scope entity is commandId-guildId, and
\* for a per-user entity with a userId it is commandId-guildId-userId: a function of
\* these fields alone.
C7_DerivedIdentity ==
    (cdLast.op = "save" /\ Recognized(cdLast.input.type)) =>
        /\ cdLast.input.type = "global" =>
              cdLast._id = cdLast.input.commandId \o "-" \o cdLast.input.guildId
        /\ (cdLast.input.type = "per-user" /\ cdLast.input.userId # None) =>
              cdLast._id = cdLast.input.commandId \o "-" \o cdLast.input.guildId
                             \o "-" \o cdLast.input.userId

C7_Witness ==
    /\ cdLast.op = "save"
    /\ cdLast.input.type = "per-user"
    /\ cdLast.input.userId = "2"
    /\ cdLast._id = "a-1-2"
    /\ \E d \in cooldowns : d._id = "a-1" /\ d.type = "global"

\* the document save writes for an entity
DocumentOf(cooldown, _id) ==
    [_id |-> _id, name |-> cooldown.commandId, type |-> cooldown.type,
     cooldown |-> cooldown.secondsRemaining]

\* a save made in this step, of an entity with a recognized scope
SaveStep == cdOps' = cdOps + 1 /\ cdLast'.op = "save" /\ Recognized(cdLast'.input.type)

\* C8 as stated: every save of an entity with a recognized scope, from every
\* storage state, returns the entity and leaves one document with the derived _id,
\* name, type and cooldown; a save repeated at once changes nothing.
C8_SaveAlwaysWrites ==
    [][SaveStep =>
          /\ cdLast'.outcome = "returned"
          /\ { d \in cooldowns' : d._id = cdLast'._id }
                = {DocumentOf(cdLast'.input, cdLast'._id)}
          /\ cdLast'.again => cooldowns' = cooldowns]_vars

\* a stored document holds the _id under another command name or another scope
Clash(docs, cooldown, _id) ==
    \E d \in docs : d._id = _id /\ (d.name # cooldown.commandId \/ d.type # cooldown.type)

\* C8, what save provides: a save repeated at once leaves the collection as the first save left
\* it and ends as the first did.  When no stored document holds the derived _id
\* under another name or scope, the save returns the entity and leaves one document
\* with the derived _id, name, type and cooldown; otherwise it fails with the
\* duplicate-key error and the collection is unchanged.
C8_SaveIdempotent ==
    [][SaveStep =>
          /\ ~Clash(cooldowns, cdLast'.input, cdLast'._id) =>
                /\ cdLast'.outcome = "returned"
                /\ { d \in cooldowns' : d._id = cdLast'._id }
                      = {DocumentOf(cdLast'.input, cdLast'._id)}
                /\ { d \in cooldowns' : d._id # cdLast'._id }
                      = { d \in cooldowns : d._id # cdLast'._id }
          /\ Clash(cooldowns, cdLast'.input, cdLast'._id) =>
                /\ cdLast'.outcome = DuplicateKey
                /\ cooldowns' = cooldowns
          /\ cdLast'.again =>
                /\ cooldowns' = cooldowns
                /\ cdLast'.outcome = cdLast.outcome]_vars

C8_Witness ==
    /\ cdLast.op = "save"
    /\ cdLast.again
    /\ cdLast.outcome = "returned"
    /\ cdLast.before = 2
    /\ Cardinality(cooldowns) = 2

\* C9 as stated: a save or a delete given an unrecognized scope fails with the
\* unrecognized-cooldown-type error before any storage call.
C9_SaveAndDeleteReject ==
    (cdLast.op \in {"save", "delete"} /\ cdLast.input.type \notin {"global", "per-user", None})
        => (cdLast.outcome = UnrecognizedType /\ cdLast.io = 0)

\* C9 amended: a save given an unrecognized scope fails with the
\* unrecognized-cooldown-type error before any storage call, and the collection is
\* unchanged; delete does not read the scope: it issues its deleteOne whatever
\* scope its argument carries.
C9_SaveRejects ==
    [][/\ (cdOps' = cdOps + 1 /\ cdLast'.op = "save" /\ ~Recognized(cdLast'.input.type)) =>
             /\ cdLast'.outcome = UnrecognizedType
             /\ cdLast'.io = 0
             /\ cooldowns' = cooldowns
       /\ (cdOps' = cdOps + 1 /\ cdLast'.op = "delete") =>
             /\ cdLast'.outcome = "returned"
             /\ cdLast'.io = 1]_vars

C9_Witness ==
    /\ cdLast.op = "save"
    /\ cdLast.input.type = "channel"
    /\ cdLast.outcome = UnrecognizedType
    /\ cdLast.io = 0
    /\ cooldowns # {}

\* the identity of a delete query: commandId-guildId, with -userId when a userId
\* (a non-empty string) is given
QueryId(input) ==
    IF input.userId \in {None, ""}
    THEN input.commandId \o "-" \o input.guildId
    ELSE input.commandId \o "-" \o input.guildId \o "-" \o input.userId

\* C10: delete(query) removes the document whose _id is the query's identity and
\* whose name is the query's commandId, leaves every other document as it is, and
\* with no such document changes nothing and does not fail.
C10_DeleteFrame ==
    [][(cdOps' = cdOps + 1 /\ cdLast'.op = "delete") =>
          LET input == cdLast'.input
              target == { d \in cooldowns : d._id = QueryId(input)
                                              /\ d.name = input.commandId }
          IN  /\ cooldowns' = cooldowns \ target
              /\ Cardinality(target) <= 1
              /\ cdLast'.outcome = "returned"
              /\ target = {} => cooldowns' = cooldowns]_vars

C10_Witness ==
    /\ cdLast.op = "delete"
    /\ cdLast.input.userId = "2"
    /\ cdLast._id = "a-1-2"
    /\ cdLast.before = 2
    /\ Cardinality(cooldowns) = 1
    /\ \A d \in cooldowns : d._id # cdLast._id

\* C11: setPrefix(guild, prefix) with an absent guild does nothing: it completes
\* without error, also when the database is not connected, starts no task, issues no
\* findOne, findAll or save, and leaves the cache, the aggregates and the store as
\* they were.
C11_AbsentGuildNoOp ==
    [][(\E t \in Tasks, p \in Prefixes : SetPrefixCall(t, None, p)) =>
          /\ last' = Completed("setPrefix", None, "noop", 0)
          /\ tasks' = tasks
          /\ findOneCalls' = findOneCalls
          /\ findAllCalls' = findAllCalls
          /\ _guildSettings' = _guildSettings
          /\ heap' = heap
          /\ gsCollection' = gsCollection]_vars

C11_Witness ==
    /\ last = Completed("setPrefix", None, "noop", 0)
    /\ ~isDBConnected
    /\ _isDbConnected # None
    /\ \E g \in Guilds : _guildSettings[g] # 0

\* C12: the cooldown repository's findOne never resolves, with a document or with
\* nothing: every call, whatever the query and whatever the collection holds, fails
\* with the not-implemented error, issues no storage call and changes nothing.
C12_FindOneNotImplemented ==
    [][(cdOps' = cdOps + 1 /\ cdLast'.op = "findOne") =>
          /\ cdLast'.outcome = NotImplemented
          /\ cdLast'.io = 0
          /\ cooldowns' = cooldowns]_vars

C12_Witness ==
    /\ cdLast.op = "findOne"
    /\ cdLast.outcome = NotImplemented
    /\ \E d \in cooldowns : /\ d._id = getIdFromWhereOneInput(cdLast.input)
                             /\ d.name = cdLast.input.commandId

\* no branch of setUp has assigned the probes and the repositories
NoStrategySelected ==
    /\ _isDbConnected = None
    /\ _getDbConnectionStatus = None
    /\ _guildSettingsRepository = None
    /\ _cooldownRepository = None

NotDefined(which) == "_" \o which \o " not defined!"

AccessorNames == {"guildSettingsRepository", "cooldownRepository"}

\* C13 as the '... not defined!' reading has it: with no persistence strategy
\* selected a read of either accessor raises its '... not defined!' error.
C13_NoStrategyNotDefined ==
    [][\A w \in AccessorNames :
          (NoStrategySelected /\ UseAccessor(w)) => last'.outcome = NotDefined(w)]_vars

\* C13: with no persistence strategy selected a read of either accessor raises
\* 'DB not connected!', the check that comes first; the '... not defined!' error is
\* raised exactly when the connectivity probe answers true and the repository
\* field is unset (a caller-supplied strategy given without that repository).
C13_AccessorErrors ==
    [][\A w \in AccessorNames :
          UseAccessor(w) =>
             LET repo == IF w = "cooldownRepository" THEN _cooldownRepository
                         ELSE _guildSettingsRepository
             IN  /\ NoStrategySelected => last'.outcome = "DB not connected!"
                 /\ last'.outcome = NotDefined(w) <=> (isDBConnected /\ repo = None)
                 /\ last'.outcome = NotDefined(w) =>
                        options.dbConnectionStrategy = "GENERIC"]_vars

C13_Witness ==
    /\ NoStrategySelected
    /\ options.dbConnectionStrategy = None
    /\ setUpPc = "running"
    /\ last.op = "guildSettingsRepository"
    /\ last.outcome = "DB not connected!"

\* the '... not defined!' error is reachable
C13_NotDefinedReached ==
    /\ last.op = "cooldownRepository"
    /\ last.outcome = NotDefined("cooldownRepository")

\* C14: with the built-in strategy assigned, dbConnectionStatus is DISCONNECTED,
\* CONNECTED, CONNECTING, DISCONNECTING for driver readiness 0, 1, 2, 3 and UNKNOWN
\* for any other readiness, and isDBConnected() is true exactly when readiness is 1,
\* that is exactly when dbConnectionStatus is CONNECTED; with no strategy configured
\* dbConnectionStatus is UNKNOWN and isDBConnected() is false.
C14_ProbeMapping ==
    /\ _getDbConnectionStatus = "MONGOOSE" =>
          /\ _isDbConnected = "MONGOOSE"
          /\ readyState = 0 => dbConnectionStatus = "DISCONNECTED"
          /\ readyState = 1 => dbConnectionStatus = "CONNECTED"
          /\ readyState = 2 => dbConnectionStatus = "CONNECTING"
          /\ readyState = 3 => dbConnectionStatus = "DISCONNECTING"
          /\ readyState \notin {0, 1, 2, 3} => dbConnectionStatus = "UNKNOWN"
          /\ isDBConnected <=> readyState = 1
          /\ isDBConnected <=> dbConnectionStatus = "CONNECTED"
    /\ options.dbConnectionStrategy = None =>
          /\ dbConnectionStatus = "UNKNOWN"
          /\ ~isDBConnected

C14_Witness ==
    /\ _getDbConnectionStatus = "MONGOOSE"
    /\ readyState = 2
    /\ dbConnectionStatus = "CONNECTING"
    /\ ~isDBConnected
    /\ setUpPc = "failed"

\* C15: the two probes and the two repositories are assigned at most once, all four
\* in one step of setUp and by one branch: the built-in branch (strategy MONGOOSE
\* with a mongoUri) or the caller-supplied branch (strategy GENERIC, the fields taken
\* from the options); with neither they stay unassigned.  No later step of setUp, no
\* API call and no change of the connection assigns them again.
C15_StrategySelectedOnce ==
    [][strategyVars' # strategyVars =>
          /\ NoStrategySelected
          /\ setUpPc \in {"start", "mongo"}
          /\ setUpPc' \notin {"start", "mongo"}
          /\ \/ /\ options.dbConnectionStrategy = "MONGOOSE" /\ options.mongoUri
                /\ strategyVars' = <<"MONGOOSE", "MONGOOSE", "MONGOOSE", "MONGOOSE">>
             \/ /\ options.dbConnectionStrategy = "GENERIC"
                /\ strategyVars' = <<"GENERIC", "GENERIC", options.guildSettingsRepository,
                                     options.cooldownRepository>>]_vars

C15_Witness ==
    /\ strategyVars = <<"GENERIC", "GENERIC", "GENERIC", "GENERIC">>
    /\ setUpPc = "running"
    /\ calls = MaxCalls
    /\ \E g \in Guilds : lastSet[g] # None
    /\ ~isDBConnected

\* C16: there is one aggregate per guildId, the cached one, also when two
\* getOrCreateGuildSettings calls for an uncached guild are suspended at findOne at
\* once: when the first has returned an aggregate, which is in the cache, the second
\* returns that same aggregate and the cache entry stays.
C16_OneAggregatePerGuild ==
    [][\A t \in Tasks :
          LET g == tasks[t].guildId
          IN  (/\ FindOneResume(t)
               /\ tasks[t].op = "getOrCreateGuildSettings"
               /\ last = Completed("getOrCreateGuildSettings", g, "miss", _guildSettings[g]))
              => /\ last'.obj = last.obj
                 /\ _guildSettings'[g] = _guildSettings[g]]_vars

\* C17: when setPrefix(guild, prefix) for a present guild completes successfully,
\* the call has called save() exactly once, the aggregate it passed carried the new
\* prefix, and the cache entry of the guild is the aggregate save() resolved with.
C17_SetPrefixSavesOnce ==
    [][\A t \in Tasks :
          SetPrefixResume(t) =>
             /\ last'.op = "setPrefix" /\ last'.outcome = "ok"
             /\ tasks[t].saves = 1
             /\ tasks[t].saved = tasks[t].prefix
             /\ tasks[t].returned # 0
             /\ _guildSettings'[tasks[t].guildId] = tasks[t].returned
             /\ heap'[tasks[t].returned].guildId = tasks[t].guildId]_vars

C17_Witness ==
    /\ last.op = "setPrefix"
    /\ last.outcome = "ok"
    /\ last.guildId = "g1"
    /\ _guildSettings["g1"] = last.obj
    /\ gsCollection["g1"] = "?"
    /\ heap[last.obj].prefix = "?"
    /\ findOneCalls["g1"] = 0

\* the warm has resolved and found no stored record: it put no aggregate in the cache
WarmFoundNothing == findAllReply # <<>> /\ \A g \in Guilds : findAllReply[1][g] = None

\* C18: when setPrefix calls for a guild have completed and no call is in flight,
\* the prefix of the guild's cached aggregate is the prefix the store holds for the
\* guild.  (Stated where the warm read no record, so that the cache entries are
\* those setPrefix wrote.)
C18_QuiescentConsistency ==
    \A g \in Guilds :
       (NoTasks /\ WarmFoundNothing /\ lastSet[g] # None /\ _guildSettings[g] # 0)
          => heap[_guildSettings[g]].prefix = gsCollection[g]

\* C19: a setPrefix(guild, prefix) call that fails because the database is not
\* connected leaves the prefix getPrefix(guild) reports as it was.
C19_FailedSetPrefixKeepsCache ==
    [][\A t \in Tasks :
          (SetPrefixSave(t) /\ guildSettingsRepository \in AccessorErrors)
             => /\ last' = Completed("setPrefix", tasks[t].guildId, guildSettingsRepository,
                                     tasks[t].obj)
                /\ getPrefix(tasks[t].guildId)' = getPrefix(tasks[t].guildId)
                /\ gsCollection' = gsCollection]_vars

\* C20: when the warm completes, every cache entry written by the API while
\* findAll() was in flight is still in the cache, with the prefix it had.
C20_WarmKeepsCacheWrites ==
    [][SetUpWarmResume =>
          \A g \in Guilds :
             _guildSettings[g] # 0 =>
                /\ _guildSettings'[g] # 0
                /\ heap'[_guildSettings'[g]].prefix = heap[_guildSettings[g]].prefix]_vars


\* an entity as the data model describes it: a per-user entity carries a userId,
\* any other entity may carry one
WellFormed(cooldown) ==
    cooldown.type = "per-user" => cooldown.userId \notin {None, ""}

\* a delete made in this step with the commandId, guildId and userId of the entity
\* the save before it returned
DeleteOfSaved ==
    /\ cdLast.op = "save"
    /\ cdLast.outcome = "returned"
    /\ Recognized(cdLast.input.type)
    /\ WellFormed(cdLast.input)
    /\ cdOps' = cdOps + 1
    /\ cdLast'.op = "delete"
    /\ cdLast'.input.commandId = cdLast.input.commandId
    /\ cdLast'.input.guildId = cdLast.input.guildId
    /\ cdLast'.input.userId = cdLast.input.userId

\* C21: for every cooldown entity with a recognized scope, the identity delete
\* derives from the entity's commandId, guildId and userId is the identity save
\* derived from the entity, so a save followed by a delete of those fields removes
\* the document the save wrote.
C21_SaveDeleteAgree ==
    [][DeleteOfSaved =>
          /\ cdLast'._id = cdLast._id
          /\ \A d \in cooldowns' : d._id # cdLast._id]_vars


\* C22: a save whose derived _id is the _id of a stored document with another
\* command name or another scope leaves that document as it is; over any sequence
\* of saves and deletes a stored document keeps the name and type it was written
\* with, and no two stored documents share an _id.
C22_CollisionGuard ==
    [][/\ (SaveStep /\ Clash(cooldowns, cdLast'.input, cdLast'._id)) =>
             \A d \in cooldowns : d._id = cdLast'._id => d \in cooldowns'
       /\ \A d \in cooldowns, e \in cooldowns' :
             d._id = e._id => (e.name = d.name /\ e.type = d.type)
       /\ \A d, e \in cooldowns' : d._id = e._id => d = e]_vars

C22_Witness ==
    /\ cdLast.op = "save"
    /\ cdLast.input.type = "global"
    /\ cdLast.outcome = DuplicateKey
    /\ cdLast.before = 2
    /\ \E d \in cooldowns : /\ d._id = cdLast._id
                            /\ d.name # cdLast.input.commandId
                            /\ d.type = "per-user"


\* the logical key of an entity: its scope, commandId and guildId, and for the
\* per-user scope its userId
LogicalKey(cooldown) ==
    <<cooldown.type, cooldown.commandId, cooldown.guildId,
      IF cooldown.type = "per-user" THEN Str(cooldown.userId) ELSE ""
    >>

\* a save made in this step after another save, both of entities with a recognized
\* scope that carry a userId when per-user
SaveAfterSave ==
    /\ cdLast.op = "save"
    /\ Recognized(cdLast.input.type)
    /\ WellFormed(cdLast.input)
    /\ SaveStep
    /\ WellFormed(cdLast'.input)

\* C23: two cooldown entities that differ in scope, commandId, guildId or (for the
\* per-user scope) userId never derive the same storage identity.
C23_IdentityInjective ==
    [][(SaveAfterSave /\ LogicalKey(cdLast'.input) # LogicalKey(cdLast.input))
          => cdLast'._id # cdLast._id]_vars


\* the guild has a cache entry whose prefix is not empty
CachedPrefix(guild) ==
    /\ guild # None
    /\ _guildSettings[guild] # 0
    /\ heap[_guildSettings[guild]].prefix # ""

\* C24: getPrefix(guild) returns the prefix of the guild's cached aggregate when
\* the guild is present and has a cache entry with a non-empty prefix, and the
\* process-wide default prefix otherwise (absent guild, no cache entry, or empty
\* prefix); it issues no repository call, starts no task and changes neither the
\* cache, the aggregates, the default prefix nor the store.
C24_GetPrefix ==
    [][\A guild \in Guilds \cup {None} :
          GetPrefixCall(guild) =>
              /\ last'.op = "getPrefix"
              /\ CachedPrefix(guild) =>
                     last'.outcome = heap[_guildSettings[guild]].prefix
              /\ ~CachedPrefix(guild) => last'.outcome = _defaultPrefix
              /\ UNCHANGED <<_guildSettings, heap, gsCollection, _defaultPrefix, tasks,
                             findOneCalls, findAllCalls, setUpPc>>]_vars

C24_Witness ==
    /\ last.op = "getPrefix"
    /\ last.guildId = "g1"
    /\ _guildSettings["g1"] # 0
    /\ heap[_guildSettings["g1"]].prefix = ""
    /\ gsCollection["g1"] = ""
    /\ _defaultPrefix = "#"
    /\ last.outcome = "#"

\* getPrefix has returned the prefix of a cached aggregate
C24_CachedReturned ==
    /\ last.op = "getPrefix"
    /\ last.guildId = "g1"
    /\ _defaultPrefix = "#"
    /\ last.outcome = "$"

=============================================================================
